---- MODULE Spec2Model ----
(***************************************************************************)
(* Model of src/fsbo_scraper.py: the FSBOCloudScraper pipeline              *)
(* (scrape_sahibinden_fsbo, parse_listings_page, parse_single_listing,      *)
(* clean_price, is_fsbo_candidate, calculate_opportunity_score,             *)
(* save_to_firestore, run_scraping_job).                                    *)
(*                                                                         *)
(* Python strings are sequences of one-character strings.  Characters      *)
(* outside ASCII carry a name: "lira" is U+20BA, "sup2" is U+00B2,          *)
(* "I_dot" is U+0130, "comb_dot" is U+0307, "g_breve" "s_cedil" "c_cedil"   *)
(* "i_dotless" "o_uml" are the Turkish lower-case letters.                  *)
(***************************************************************************)
EXTENDS Integers, Sequences, FiniteSets, TLC

VARIABLES
    pc,             \* position inside run_scraping_job
    max_pages,      \* argument of run_scraping_job
    driver,         \* local of scrape_sahibinden_fsbo: "unset", "ok", "None"
    page,           \* loop variable of scrape_sahibinden_fsbo
    listing_items,  \* local of parse_listings_page: the rows of the soup
    idx,            \* position of the row loop in listing_items
    page_listings,  \* local `listings` of parse_listings_page
    listings,       \* local `listings` of scrape_sahibinden_fsbo
    scraped_count,  \* self.scraped_count
    error_count,    \* self.error_count
    hashSeed,       \* the per-process key of the built-in hash(): None until
                    \* the process first uses it, then Some(key)
    k,              \* position of the loop of save_to_firestore
    saved_count,    \* local of save_to_firestore
    batch,          \* the open WriteBatch: the writes set() put in it
    committed,      \* the batches commit() has sent, in order
    db,             \* the fsbo_listings collection: document id -> url
    result,         \* what run_scraping_job returned
    call,           \* a direct call of a pure method: its name and arguments
    ret             \* what that call returned

vars == <<pc, max_pages, driver, page, listing_items, idx, page_listings,
          listings, scraped_count, error_count, hashSeed, k, saved_count,
          batch, committed, db, result, call, ret>>

jobVars == <<pc, max_pages, driver, page, listing_items, idx, page_listings,
             listings, scraped_count, error_count, hashSeed, k, saved_count,
             batch, committed, db, result>>

-----------------------------------------------------------------------------
(* Python str operations *)

Lira == "lira"
Sup2 == "sup2"
IDot == "I_dot"
CombDot == "comb_dot"

DecimalDigits == {"0", "1", "2", "3", "4", "5", "6", "7", "8", "9"}

\* the characters str.isdigit() accepts: the decimal digits and the
\* superscript digits, which int() does not accept
IsDigitChar(c) == c \in DecimalDigits \cup {Sup2}

DigitValue(c) ==
    CASE c = "0" -> 0 [] c = "1" -> 1 [] c = "2" -> 2 [] c = "3" -> 3
      [] c = "4" -> 4 [] c = "5" -> 5 [] c = "6" -> 6 [] c = "7" -> 7
      [] c = "8" -> 8 [] c = "9" -> 9

\* str.isdigit(): every character a digit and at least one character
isdigit(s) == Len(s) > 0 /\ \A i \in 1..Len(s) : IsDigitChar(s[i])

RECURSIVE DecimalValue(_)
DecimalValue(s) ==
    IF s = <<>> THEN 0
    ELSE 10 * DecimalValue(SubSeq(s, 1, Len(s) - 1)) + DigitValue(s[Len(s)])

\* int(s) for a string without sign or blanks: the value, or ValueError
int(s) ==
    IF Len(s) > 0 /\ \A i \in 1..Len(s) : s[i] \in DecimalDigits
    THEN [raised |-> FALSE, value |-> DecimalValue(s)]
    ELSE [raised |-> TRUE, value |-> 0]

\* str.replace(old, new): every occurrence, left to right, not overlapping
RECURSIVE replace(_, _, _)
replace(s, old, new) ==
    IF Len(s) < Len(old) THEN s
    ELSE IF SubSeq(s, 1, Len(old)) = old
         THEN new \o replace(SubSeq(s, Len(old) + 1, Len(s)), old, new)
         ELSE <<Head(s)>> \o replace(Tail(s), old, new)

UpperToLower ==
    [c \in {"A", "B", "C", "D", "E", "F", "G", "H", "I", "J", "K", "L", "M",
            "N", "O", "P", "Q", "R", "S", "T", "U", "V", "W", "X", "Y", "Z"} |->
        CASE c = "A" -> "a" [] c = "B" -> "b" [] c = "C" -> "c" [] c = "D" -> "d"
          [] c = "E" -> "e" [] c = "F" -> "f" [] c = "G" -> "g" [] c = "H" -> "h"
          [] c = "I" -> "i" [] c = "J" -> "j" [] c = "K" -> "k" [] c = "L" -> "l"
          [] c = "M" -> "m" [] c = "N" -> "n" [] c = "O" -> "o" [] c = "P" -> "p"
          [] c = "Q" -> "q" [] c = "R" -> "r" [] c = "S" -> "s" [] c = "T" -> "t"
          [] c = "U" -> "u" [] c = "V" -> "v" [] c = "W" -> "w" [] c = "X" -> "x"
          [] c = "Y" -> "y" [] c = "Z" -> "z"]

\* str.lower(): U+0130 becomes "i" followed by the combining dot
RECURSIVE lower(_)
lower(s) ==
    IF s = <<>> THEN <<>>
    ELSE (IF Head(s) \in DOMAIN UpperToLower THEN <<UpperToLower[Head(s)]>>
          ELSE IF Head(s) = IDot THEN <<"i", CombDot>>
          ELSE <<Head(s)>>) \o lower(Tail(s))

\* the operator `sub in s` on strings
in(sub, s) ==
    \E i \in 0..(Len(s) - Len(sub)) : SubSeq(s, i + 1, i + Len(sub)) = sub

\* any(word in s for word in words)
any_in(words, s) == \E w \in words : in(w, s)

\* get_text(strip=True) of an element holding one text node
RECURSIVE strip(_)
strip(s) ==
    IF s = <<>> THEN s
    ELSE IF Head(s) = " " THEN strip(Tail(s))
    ELSE IF s[Len(s)] = " " THEN strip(SubSeq(s, 1, Len(s) - 1))
    ELSE s

-----------------------------------------------------------------------------
(* clean_price *)

\* clean_price without .replace('.', '')
clean_price_keeping_dots(price_text) ==
    LET cleaned == replace(replace(replace(price_text,
                       <<Lira>>, <<>>), <<" ">>, <<>>), <<"T", "L">>, <<>>)
        parsed == IF isdigit(cleaned) THEN int(cleaned)
                  ELSE [raised |-> FALSE, value |-> 0]
    IN  IF parsed.raised THEN 0 ELSE parsed.value

clean_price(price_text) ==
    LET cleaned == replace(replace(replace(replace(price_text,
                       <<Lira>>, <<>>), <<".">>, <<>>), <<" ">>, <<>>),
                       <<"T", "L">>, <<>>)
        parsed == IF isdigit(cleaned) THEN int(cleaned)
                  ELSE [raised |-> FALSE, value |-> 0]
    IN  IF parsed.raised THEN 0 ELSE parsed.value

-----------------------------------------------------------------------------
(* is_fsbo_candidate *)

fsbo_keywords == {
    <<"s", "a", "h", "i", "b", "i", "n", "d", "e", "n">>,
    <<"a", "c", "i", "l">>,
    <<"t", "a", "k", "a", "s">>,
    <<"d", "e", "g_breve", "i", "s_cedil", "e", "n">>,
    <<"t", "a", "h", "l", "i", "y", "e">>,
    <<"i", "h", "t", "i", "y", "a", "c_cedil", "t", "a", "n">>,
    <<"k", "r", "e", "d", "i", "y", "e", " ", "u", "y", "g", "u", "n">>,
    <<"a", "c", "e", "l", "e">>,
    <<"i", "v", "e", "d", "i">> }

agent_keywords == {
    <<"e", "m", "l", "a", "k">>,
    <<"g", "a", "y", "r", "i", "m", "e", "n", "k", "u", "l">>,
    <<"d", "a", "n", "i_dotless", "s_cedil", "m", "a", "n">>,
    <<"b", "r", "o", "k", "e", "r">>,
    <<"o", "f", "i", "s">> }

PriceMin == 100000
PriceMax == 10000000

\* is_fsbo_candidate without `not has_agent_keyword`
is_fsbo_candidate_with_agents(listing) ==
    LET title == lower(listing.title)
        price == listing.price
    IN  /\ any_in(fsbo_keywords, title)
        /\ PriceMin <= price /\ price <= PriceMax

\* is_fsbo_candidate without has_fsbo_keyword
is_fsbo_candidate_without_keyword(listing) ==
    LET title == lower(listing.title)
        price == listing.price
    IN  /\ ~any_in(agent_keywords, title)
        /\ PriceMin <= price /\ price <= PriceMax

is_fsbo_candidate(listing) ==
    LET title == lower(listing.title)
        has_fsbo_keyword == any_in(fsbo_keywords, title)
        has_agent_keyword == any_in(agent_keywords, title)
        price == listing.price
        price_ok == PriceMin <= price /\ price <= PriceMax
    IN  has_fsbo_keyword /\ ~has_agent_keyword /\ price_ok

-----------------------------------------------------------------------------
(* calculate_opportunity_score *)

urgent_words == { <<"a", "c", "i", "l">>, <<"a", "c", "e", "l", "e">>,
                  <<"i", "v", "e", "d", "i">> }
exchange_words == { <<"t", "a", "k", "a", "s">>,
                    <<"d", "e", "g_breve", "i", "s_cedil", "e", "n">> }
need_words == { <<"i", "h", "t", "i", "y", "a", "c_cedil", "t", "a", "n">>,
                <<"t", "a", "h", "l", "i", "y", "e">> }
bonus_locations == { <<"k", "a", "d", "i_dotless", "k", "o_uml", "y">>,
                     <<"b", "e", "s_cedil", "i", "k", "t", "a", "s_cedil">>,
                     <<"s_cedil", "i", "s_cedil", "l", "i">> }

BaseScore == 5
BonusPriceMin == 200000
BonusPriceMax == 500000
ScoreMin == 1
ScoreMax == 10

Min(a, b) == IF a <= b THEN a ELSE b
Max(a, b) == IF a >= b THEN a ELSE b

\* lines 253-276: the sum before it is clamped
raw_score(title, price, location) ==
    LET title_lower == lower(title)
        location_lower == lower(location)
    IN  BaseScore
        + (IF any_in(urgent_words, title_lower) THEN 2 ELSE 0)
        + (IF any_in(exchange_words, title_lower) THEN 1 ELSE 0)
        + (IF any_in(need_words, title_lower) THEN 2 ELSE 0)
        + (IF any_in(bonus_locations, location_lower) THEN 1 ELSE 0)
        + (IF BonusPriceMin <= price /\ price <= BonusPriceMax THEN 1 ELSE 0)

\* the sum returned as it is
ClampUnbounded(score) == score

\* line 278: min(max(score, 1), 10)
Clamp(score) == Min(Max(score, ScoreMin), ScoreMax)

calculate_opportunity_score(title, price, location) ==
    Clamp(raw_score(title, price, location))

-----------------------------------------------------------------------------
(* parse_single_listing *)

\* an optional value: None, or the value in a one-element sequence
None == <<>>
Some(x) == <<x>>

\* "https://www.sahibinden.com"
Origin == <<"h", "t", "t", "p", "s", ":", "/", "/", "w", "w", "w", ".",
            "s", "a", "h", "i", "b", "i", "n", "d", "e", "n", ".", "c", "o", "m">>

\* element.get_text(strip=True) if element else default
text_or(elem, default) == IF elem # None THEN strip(elem[1]) ELSE default

\* A row (item) is a record of the elements item.find() can return:
\*   title_elem     None or Some([text, href]), href None or Some(string)
\*   price_elem, location_elem, details_elem, date_elem   None or Some(text)
\*   fault          "none"; "extract": a call inside parse_single_listing
\*                  raises; "body": the loop body of parse_listings_page
\*                  raises outside parse_single_listing
parse_single_listing(item) ==
    IF item.fault = "extract" THEN None
    ELSE IF item.title_elem = None THEN None
    ELSE LET title_elem == item.title_elem[1]
             title == strip(title_elem.text)
             url == Origin \o (IF title_elem.href # None
                               THEN title_elem.href[1] ELSE <<>>)
             price == clean_price(text_or(item.price_elem, <<"0">>))
             location == text_or(item.location_elem, <<>>)
             details == text_or(item.details_elem, <<>>)
             date_text == text_or(item.date_elem, <<>>)
         IN  Some([title |-> title,
                   price |-> price,
                   location |-> location,
                   details |-> details,
                   date_text |-> date_text,
                   url |-> url,
                   opportunity_score |->
                       calculate_opportunity_score(title, price, location)])

-----------------------------------------------------------------------------
(* save_to_firestore: document ids and the collection *)

\* The built-in hash() of a str is SipHash keyed by a secret the interpreter
\* draws when the process starts (PYTHONHASHSEED=random, the default); the
\* hash of the empty string is 0.  The key is hashSeed; the mixing function
\* is a keyed polynomial over HashBits bits in place of SipHash over 64.
HashBits == 16
HashMod == 2 ^ HashBits

CharTable == <<"h", "t", "p", "s", ":", "/", "w", ".", "a", "i", "b", "n",
               "d", "e", "c", "o", "m", "0", "1", "2", "3", "4", "5", "6",
               "7", "8", "9">>

Code(c) == CHOOSE i \in 1..Len(CharTable) : CharTable[i] = c

RECURSIVE Mix(_, _)
Mix(h, s) ==
    IF s = <<>> THEN h
    ELSE Mix((h * 31 + Code(Head(s))) % HashMod, Tail(s))

\* hash(s): a signed value
PyHash(seed, s) ==
    IF s = <<>> THEN 0
    ELSE Mix((seed * 40503 + 1) % HashMod, s) - HashMod \div 2

DigitChar(d) == CASE d = 0 -> "0" [] d = 1 -> "1" [] d = 2 -> "2"
                  [] d = 3 -> "3" [] d = 4 -> "4" [] d = 5 -> "5"
                  [] d = 6 -> "6" [] d = 7 -> "7" [] d = 8 -> "8"
                  [] d = 9 -> "9"

RECURSIVE NatToStr(_)
NatToStr(n) ==
    IF n < 10 THEN <<DigitChar(n)>>
    ELSE Append(NatToStr(n \div 10), DigitChar(n % 10))

\* the formatting of an int inside an f-string
IntToStr(n) == IF n < 0 THEN <<"-">> \o NatToStr(-n) ELSE NatToStr(n)

\* line 289: f"fsbo_{hash(listing['url'])}"
doc_id_of(seed, url) ==
    <<"f", "s", "b", "o", "_">> \o IntToStr(PyHash(seed, url))

\* line 307: one batch.set(doc_ref, firestore_data, merge=True); src is the
\* position of the listing in the list
Write(seed, listing, pos) ==
    [doc_id |-> doc_id_of(seed, listing.url), url |-> listing.url, src |-> pos]

\* batch.commit(): the writes of the batch applied in order, each an upsert
Upsert(d, ws) ==
    LET ids == {ws[i].doc_id : i \in 1..Len(ws)}
        last(id) == ws[CHOOSE i \in 1..Len(ws) :
                          /\ ws[i].doc_id = id
                          /\ \A j \in (i + 1)..Len(ws) : ws[j].doc_id # id]
    IN  {r \in d : r.doc_id \notin ids}
            \cup {[doc_id |-> id, url |-> last(id).url] : id \in ids}

BatchLimit == 100

\* line 311: if saved_count % 100 == 0
BatchFull(count) == count % BatchLimit = 0

\* the last commit made without the test of line 316
NeedsFinalCommitAlways(count) == TRUE

\* line 316: if saved_count % 100 != 0
NeedsFinalCommit(count) == count % BatchLimit # 0

-----------------------------------------------------------------------------
(* The rows a page can hold *)

Anchor(text, href) == Some([text |-> text, href |-> href])

Item(title_elem, price_elem, location_elem, fault) ==
    [title_elem |-> title_elem, price_elem |-> price_elem,
     location_elem |-> location_elem, details_elem |-> None,
     date_elem |-> None, fault |-> fault]

GoodPrice == Some(<<"4", "5", "0", ".", "0", "0", "0", " ", "T", "L">>)

\* " Acil takas ", 450.000 TL, Kadikoy: passes the gate
RowOwnerA ==
    Item(Anchor(<<" ", "A", "c", "i", "l", " ", "t", "a", "k", "a", "s", " ">>,
                Some(<<"/", "1">>)),
         GoodPrice,
         Some(<<"K", "a", "d", "i_dotless", "k", "o_uml", "y">>), "none")

\* "SAHIBINDEN", lira sign and 1.250.000, no location cell: passes the gate
RowOwnerB ==
    Item(Anchor(<<"S", "A", "H", "I", "B", "I", "N", "D", "E", "N">>,
                Some(<<"/", "2">>)),
         Some(<<"lira", " ", "1", ".", "2", "5", "0", ".", "0", "0", "0">>),
         None, "none")

\* "Acil Emlak": an agent keyword beside an FSBO keyword
RowAgent ==
    Item(Anchor(<<"A", "c", "i", "l", " ", "E", "m", "l", "a", "k">>,
                Some(<<"/", "3">>)), GoodPrice, None, "none")

\* "Daire": no FSBO keyword
RowPlain ==
    Item(Anchor(<<"D", "a", "i", "r", "e">>, Some(<<"/", "4">>)),
         GoodPrice, None, "none")

\* "acil" at 50.000 TL: under the band
RowCheap ==
    Item(Anchor(<<"a", "c", "i", "l">>, Some(<<"/", "5">>)),
         Some(<<"5", "0", ".", "0", "0", "0", " ", "T", "L">>), None, "none")

\* "acil" at 10.000.001 TL: over the band
RowDear ==
    Item(Anchor(<<"a", "c", "i", "l">>, Some(<<"/", "6">>)),
         Some(<<"1", "0", ".", "0", "0", "0", ".", "0", "0", "1", " ", "T", "L">>),
         None, "none")

\* no a.classifiedTitle in the row
RowNoAnchor == Item(None, GoodPrice, None, "none")

\* an anchor whose text is blank
RowBlankTitle ==
    Item(Anchor(<<" ", " ">>, Some(<<"/", "7">>)), GoodPrice, None, "none")

\* rows like RowOwnerA whose processing raises
RowExtractFault ==
    [RowOwnerA EXCEPT !.fault = "extract"]

RowBodyFault ==
    [RowOwnerA EXCEPT !.fault = "body"]

\* every kind of row
Rows == {RowOwnerA, RowOwnerB, RowAgent, RowPlain, RowCheap, RowDear,
         RowNoAnchor, RowBlankTitle, RowExtractFault, RowBodyFault}

\* the rows of the pages a whole job is run on: one that passes, one the
\* gate rejects, one without a title anchor, the two that raise
JobRows == {RowOwnerA, RowPlain, RowNoAnchor, RowExtractFault, RowBodyFault}

MaxRows == 2
MaxPages == 2
MaxSeed == 1
BulkRows == 100

Seeds == 0..MaxSeed

RECURSIVE SeqsUpTo(_, _)
SeqsUpTo(S, n) ==
    IF n = 0 THEN {<<>>}
    ELSE LET shorter == SeqsUpTo(S, n - 1)
         IN  shorter \cup {Append(q, x) : q \in shorter, x \in S}

\* a long page: n rows that all pass the gate
BulkPage(n) == [i \in 1..n |-> RowOwnerA]

\* the pages the fetch delivers to a job
Pages == SeqsUpTo(JobRows, MaxRows) \cup {BulkPage(BulkRows)}

-----------------------------------------------------------------------------
(* run_scraping_job *)

\* lines 341-350
JobResult(saved) ==
    Some([success |-> TRUE,
          total_scraped |-> scraped_count,
          total_saved |-> saved,
          errors |-> error_count,
          pages_processed |-> max_pages])

\* lines 357-362
JobFailure ==
    Some([success |-> FALSE,
          scraped_count |-> scraped_count,
          error_count |-> error_count])

\* line 111: the loop goes on while page <= max_pages, then the finally block
AfterPage(p) == IF p <= max_pages THEN "page" ELSE "quit"

\* line 285: save_to_firestore is entered.  The key of hash() is fixed when
\* the interpreter starts and nothing reads it before line 289, so it is
\* drawn here if this process has not drawn it yet.
EnterSave ==
    /\ pc' = "save"
    /\ IF hashSeed = None
       THEN \E seed \in Seeds : hashSeed' = Some(seed)
       ELSE hashSeed' = hashSeed
    /\ k' = 1
    /\ saved_count' = 0
    /\ batch' = <<>>
    /\ committed' = <<>>

\* line 89: webdriver.Chrome() and set_page_load_timeout() succeed
GetChromeDriver ==
    /\ pc = "start"
    /\ driver' = "ok"
    /\ page' = 1
    /\ pc' = AfterPage(1)
    /\ UNCHANGED <<max_pages, listing_items, idx, page_listings, listings,
                   scraped_count, error_count, hashSeed, k, saved_count,
                   batch, committed, db, result, call, ret>>

\* lines 93-95, 104-106: the driver cannot be created, [] is returned
GetChromeDriverNone ==
    /\ pc = "start"
    /\ driver' = "None"
    /\ EnterSave
    /\ UNCHANGED <<max_pages, page, listing_items, idx, page_listings,
                   listings, scraped_count, error_count, db,
                   result, call, ret>>

\* lines 116-125 raise (driver.get, the wait for a row): lines 134-137
FetchPageRaises ==
    /\ pc = "page"
    /\ error_count' = error_count + 1
    /\ page' = page + 1
    /\ pc' = AfterPage(page + 1)
    /\ UNCHANGED <<max_pages, driver, listing_items, idx, page_listings,
                   listings, scraped_count, hashSeed, k, saved_count, batch,
                   committed, db, result, call, ret>>

\* lines 116-126, 151-155: the page is fetched and its rows are found
FetchPage ==
    /\ pc = "page"
    /\ \E soup \in Pages : listing_items' = soup
    /\ idx' = 1
    /\ page_listings' = <<>>
    /\ pc' = "rows"
    /\ UNCHANGED <<max_pages, driver, page, listings, scraped_count,
                   error_count, hashSeed, k, saved_count, batch, committed,
                   db, result, call, ret>>

\* line 155 raises: lines 170-173 return [], line 127 extends by nothing
FindAllRaises ==
    /\ pc = "page"
    /\ page' = page + 1
    /\ pc' = AfterPage(page + 1)
    /\ UNCHANGED <<max_pages, driver, listing_items, idx, page_listings,
                   listings, scraped_count, error_count, hashSeed, k,
                   saved_count, batch, committed, db, result, call, ret>>

\* lines 161-162 (scraped_at is a timestamp no branch reads)
Stamp(listing_data, page_num) ==
    [title |-> listing_data.title,
     price |-> listing_data.price,
     location |-> listing_data.location,
     details |-> listing_data.details,
     date_text |-> listing_data.date_text,
     url |-> listing_data.url,
     opportunity_score |-> listing_data.opportunity_score,
     source_page |-> page_num]

\* line 160: listing_data and self.is_fsbo_candidate(listing_data)
Kept(item) ==
    /\ item.fault # "body"
    /\ parse_single_listing(item) # None
    /\ is_fsbo_candidate(parse_single_listing(item)[1])

\* lines 159-164: the row gives a record that passes the gate
ParseRowKeeps ==
    /\ pc = "rows"
    /\ idx <= Len(listing_items)
    /\ LET listing_data == parse_single_listing(listing_items[idx])
       IN  /\ listing_items[idx].fault # "body"
           /\ listing_data # None
           /\ is_fsbo_candidate(listing_data[1])
           /\ page_listings' = Append(page_listings,
                                      Stamp(listing_data[1], page))
    /\ scraped_count' = scraped_count + 1
    /\ idx' = idx + 1
    /\ UNCHANGED <<pc, max_pages, driver, page, listing_items, listings,
                   error_count, hashSeed, k, saved_count, batch, committed,
                   db, result, call, ret>>

\* lines 159-160: no record (None) or a record the gate rejects
ParseRowSkips ==
    /\ pc = "rows"
    /\ idx <= Len(listing_items)
    /\ listing_items[idx].fault # "body"
    /\ ~Kept(listing_items[idx])
    /\ idx' = idx + 1
    /\ UNCHANGED <<pc, max_pages, driver, page, listing_items, page_listings,
                   listings, scraped_count, error_count, hashSeed, k,
                   saved_count, batch, committed, db, result, call, ret>>

\* `break` in place of `continue`: the loop is left
RowLoopBreak(i, n) == n + 1

\* lines 166-168: `continue` goes to the next row
RowLoopContinue(i, n) == i + 1

\* lines 159-168: the loop body raises, the handler goes on
ParseRowRaises ==
    /\ pc = "rows"
    /\ idx <= Len(listing_items)
    /\ listing_items[idx].fault = "body"
    /\ idx' = RowLoopContinue(idx, Len(listing_items))
    /\ UNCHANGED <<pc, max_pages, driver, page, listing_items, page_listings,
                   listings, scraped_count, error_count, hashSeed, k,
                   saved_count, batch, committed, db, result, call, ret>>

\* return listings[:20]
PageResultCapped(found) == SubSeq(found, 1, Min(Len(found), 20))

\* line 173: return listings
PageResult(found) == found

\* lines 173, 127-132: the page's records are returned and appended
EndPage ==
    /\ pc = "rows"
    /\ idx > Len(listing_items)
    /\ listings' = listings \o PageResult(page_listings)
    /\ listing_items' = <<>>
    /\ page_listings' = <<>>
    /\ idx' = 0
    /\ page' = page + 1
    /\ pc' = AfterPage(page + 1)
    /\ UNCHANGED <<max_pages, driver, scraped_count, error_count, hashSeed,
                   k, saved_count, batch, committed, db, result, call, ret>>

\* lines 142-147, 336: driver.quit() returns, the list goes to save_to_firestore
QuitDriver ==
    /\ pc = "quit"
    /\ EnterSave
    /\ UNCHANGED <<max_pages, driver, page, listing_items, idx, page_listings,
                   listings, scraped_count, error_count, db,
                   result, call, ret>>

\* line 144 raises inside finally: lines 355-362
QuitDriverRaises ==
    /\ pc = "quit"
    /\ result' = JobFailure
    /\ pc' = "done"
    /\ UNCHANGED <<max_pages, driver, page, listing_items, idx, page_listings,
                   listings, scraped_count, error_count, hashSeed, k,
                   saved_count, batch, committed, db, call, ret>>

\* lines 287-311: one listing is put into the batch
BatchSet ==
    /\ pc = "save"
    /\ k <= Len(listings)
    /\ batch' = Append(batch, Write(hashSeed[1], listings[k], k))
    /\ saved_count' = saved_count + 1
    /\ IF BatchFull(saved_count + 1)
       THEN pc' = "commit" /\ k' = k
       ELSE pc' = "save" /\ k' = k + 1
    /\ UNCHANGED <<max_pages, driver, page, listing_items, idx, page_listings,
                   listings, scraped_count, error_count, hashSeed, committed,
                   db, result, call, ret>>

\* line 307 raises: lines 321-324, then lines 338-353
BatchSetRaises ==
    /\ pc = "save"
    /\ k <= Len(listings)
    /\ result' = JobResult(saved_count)
    /\ pc' = "done"
    /\ UNCHANGED <<max_pages, driver, page, listing_items, idx, page_listings,
                   listings, scraped_count, error_count, hashSeed, k,
                   saved_count, batch, committed, db, call, ret>>

\* lines 312-313: the full batch is committed, a new one is opened
CommitFull ==
    /\ pc = "commit"
    /\ committed' = Append(committed, batch)
    /\ db' = Upsert(db, batch)
    /\ batch' = <<>>
    /\ k' = k + 1
    /\ pc' = "save"
    /\ UNCHANGED <<max_pages, driver, page, listing_items, idx, page_listings,
                   listings, scraped_count, error_count, hashSeed,
                   saved_count, result, call, ret>>

\* line 312 raises: lines 321-324, then lines 338-353
CommitFullRaises ==
    /\ pc = "commit"
    /\ result' = JobResult(saved_count)
    /\ pc' = "done"
    /\ UNCHANGED <<max_pages, driver, page, listing_items, idx, page_listings,
                   listings, scraped_count, error_count, hashSeed, k,
                   saved_count, batch, committed, db, call, ret>>

\* lines 316-319, 324: the last batch is committed, then lines 338-353
FinalCommit ==
    /\ pc = "save"
    /\ k > Len(listings)
    /\ NeedsFinalCommit(saved_count)
    /\ committed' = Append(committed, batch)
    /\ db' = Upsert(db, batch)
    /\ batch' = <<>>
    /\ result' = JobResult(saved_count)
    /\ pc' = "done"
    /\ UNCHANGED <<max_pages, driver, page, listing_items, idx, page_listings,
                   listings, scraped_count, error_count, hashSeed, k,
                   saved_count, call, ret>>

\* line 317 raises: lines 321-324, then lines 338-353
FinalCommitRaises ==
    /\ pc = "save"
    /\ k > Len(listings)
    /\ NeedsFinalCommit(saved_count)
    /\ result' = JobResult(saved_count)
    /\ pc' = "done"
    /\ UNCHANGED <<max_pages, driver, page, listing_items, idx, page_listings,
                   listings, scraped_count, error_count, hashSeed, k,
                   saved_count, batch, committed, db, call, ret>>

\* line 316 false: nothing is left to commit, then lines 338-353
NoFinalCommit ==
    /\ pc = "save"
    /\ k > Len(listings)
    /\ ~NeedsFinalCommit(saved_count)
    /\ result' = JobResult(saved_count)
    /\ pc' = "done"
    /\ UNCHANGED <<max_pages, driver, page, listing_items, idx, page_listings,
                   listings, scraped_count, error_count, hashSeed, k,
                   saved_count, batch, committed, db, call, ret>>

-----------------------------------------------------------------------------
(* Direct calls of the pure methods: the arguments come from bounded sets *)

MaxPriceLen == 4

PriceChars == {"0", "1", ".", " ", "T", "L", Lira, ",", "a", Sup2}

RECURSIVE StringsUpTo(_, _)
StringsUpTo(chars, n) ==
    IF n = 0 THEN {<<>>}
    ELSE LET shorter == StringsUpTo(chars, n - 1)
         IN  shorter \cup {Append(s, c) : s \in shorter, c \in chars}

PriceTexts == StringsUpTo(PriceChars, MaxPriceLen)

ScoreTitles == {
    <<>>,
    <<"a", "c", "i", "l">>,
    <<"A", "c", "i", "l", " ", "t", "a", "k", "a", "s", " ",
      "t", "a", "h", "l", "i", "y", "e">>,
    <<"A", "C", "I_dot", "L">>,
    <<"D", "a", "i", "r", "e">> }

ScoreLocations == {
    <<>>,
    <<"K", "a", "d", "i_dotless", "k", "o_uml", "y">>,
    <<"A", "n", "k", "a", "r", "a">> }

ScorePrices == {0, BonusPriceMin - 1, BonusPriceMin, BonusPriceMax,
                BonusPriceMax + 1}

NoCall == [fn |-> "none"]

CleanPriceCalls == [fn : {"clean_price"}, price_text : PriceTexts]

ScoreCalls == [fn : {"calculate_opportunity_score"}, title : ScoreTitles,
               price : ScorePrices, location : ScoreLocations]

CallCleanPrice ==
    /\ call.fn = "clean_price"
    /\ ret = <<>>
    /\ ret' = <<clean_price(call.price_text)>>
    /\ UNCHANGED <<call, jobVars>>

CallScore ==
    /\ call.fn = "calculate_opportunity_score"
    /\ ret = <<>>
    /\ ret' = <<calculate_opportunity_score(call.title, call.price,
                                            call.location)>>
    /\ UNCHANGED <<call, jobVars>>

-----------------------------------------------------------------------------
(* Specifications *)

\* no direct call is in progress
NoDirectCall == call = NoCall /\ ret = <<>>

\* Spec: one whole job.  FSBOCloudScraper() is constructed in a new process
\* and run_scraping_job(max_pages) is entered.
Init ==
    /\ pc = "start"
    /\ max_pages \in 0..MaxPages
    /\ driver = "unset"
    /\ page = 0
    /\ listing_items = <<>>
    /\ idx = 0
    /\ page_listings = <<>>
    /\ listings = <<>>
    /\ scraped_count = 0
    /\ error_count = 0
    /\ hashSeed = None
    /\ k = 0
    /\ saved_count = 0
    /\ batch = <<>>
    /\ committed = <<>>
    /\ db = {}
    /\ result = None
    /\ NoDirectCall

Next ==
    \/ GetChromeDriver
    \/ GetChromeDriverNone
    \/ FetchPageRaises
    \/ FetchPage
    \/ FindAllRaises
    \/ ParseRowKeeps
    \/ ParseRowSkips
    \/ ParseRowRaises
    \/ EndPage
    \/ QuitDriver
    \/ QuitDriverRaises
    \/ BatchSet
    \/ BatchSetRaises
    \/ CommitFull
    \/ CommitFullRaises
    \/ FinalCommit
    \/ FinalCommitRaises
    \/ NoFinalCommit

Spec == Init /\ [][Next]_vars

\* SpecPage: parse_listings_page(soup, 1) alone, the one page of a job, on
\* every short page over Rows and on long pages
MaxDirectRows == 3
MaxBulkRows == 21

DirectPages ==
    SeqsUpTo(Rows, MaxDirectRows) \cup {BulkPage(n) : n \in 0..MaxBulkRows}

InitPage ==
    /\ pc = "rows"
    /\ max_pages = 1
    /\ driver = "ok"
    /\ page = 1
    /\ listing_items \in DirectPages
    /\ idx = 1
    /\ page_listings = <<>>
    /\ listings = <<>>
    /\ scraped_count = 0
    /\ error_count = 0
    /\ hashSeed = None
    /\ k = 0
    /\ saved_count = 0
    /\ batch = <<>>
    /\ committed = <<>>
    /\ db = {}
    /\ result = None
    /\ NoDirectCall

NextPage ==
    \/ ParseRowKeeps
    \/ ParseRowSkips
    \/ ParseRowRaises
    \/ EndPage

SpecPage == InitPage /\ [][NextPage]_vars

\* the records parse_listings_page gives for RowOwnerA and RowOwnerB
OwnerRecord(item) == Stamp(parse_single_listing(item)[1], 1)

\* SpecSave: save_to_firestore(listings) alone, on lists of every length up
\* to MaxListings whose records alternate between the two owners
MaxListings == 201

SavedList(n) ==
    [i \in 1..n |-> IF i % 2 = 1 THEN OwnerRecord(RowOwnerA)
                    ELSE OwnerRecord(RowOwnerB)]

\* save_to_firestore(given) is entered after a scrape that found `given`
SaveEntered(given) ==
    /\ pc = "save"
    /\ max_pages = 1
    /\ driver = "ok"
    /\ page = 2
    /\ listing_items = <<>>
    /\ idx = 0
    /\ page_listings = <<>>
    /\ listings = given
    /\ scraped_count = Len(given)
    /\ error_count = 0
    /\ k = 1
    /\ saved_count = 0
    /\ batch = <<>>
    /\ committed = <<>>
    /\ result = None
    /\ NoDirectCall

InitSave ==
    /\ \E n \in 0..MaxListings : SaveEntered(SavedList(n))
    /\ hashSeed \in {Some(seed) : seed \in Seeds}
    /\ db = {}

NextSave ==
    \/ BatchSet
    \/ BatchSetRaises
    \/ CommitFull
    \/ CommitFullRaises
    \/ FinalCommit
    \/ FinalCommitRaises
    \/ NoFinalCommit

SpecSave == InitSave /\ [][NextSave]_vars

\* SpecRuns: the saves of one job after another on short lists, each job in
\* the process of the job before it or in a new process, the collection
\* kept by Firestore from job to job
MaxRunLen == 2

RunLists == SeqsUpTo({OwnerRecord(RowOwnerA), OwnerRecord(RowOwnerB)}, MaxRunLen)

InitRuns ==
    /\ \E given \in RunLists : SaveEntered(given)
    /\ hashSeed \in {Some(seed) : seed \in Seeds}
    /\ db = {}

\* lines 375-376 again: a new FSBOCloudScraper, its job scraped `given`
\* and enters save_to_firestore
NewJob(given) ==
    /\ pc' = "save"
    /\ listings' = given
    /\ scraped_count' = Len(given)
    /\ error_count' = 0
    /\ k' = 1
    /\ saved_count' = 0
    /\ batch' = <<>>
    /\ committed' = <<>>
    /\ result' = None
    /\ UNCHANGED <<max_pages, driver, page, listing_items, idx,
                   page_listings, db, call, ret>>

\* the next request is served by the same process: the key of hash() stays
NextRequest ==
    /\ pc = "done"
    /\ \E given \in RunLists : NewJob(given)
    /\ UNCHANGED hashSeed

\* the next request is served by a new process (a new Cloud Run instance),
\* which draws its own key
NextProcess ==
    /\ pc = "done"
    /\ \E given \in RunLists : NewJob(given)
    /\ \E seed \in Seeds : hashSeed' = Some(seed)

NextRuns ==
    \/ BatchSet
    \/ BatchSetRaises
    \/ FinalCommit
    \/ FinalCommitRaises
    \/ NoFinalCommit
    \/ NextRequest
    \/ NextProcess

SpecRuns == InitRuns /\ [][NextRuns]_vars

\* SpecPure: clean_price and calculate_opportunity_score called directly
JobIdle ==
    /\ pc = "idle"
    /\ max_pages = 0
    /\ driver = "unset"
    /\ page = 0
    /\ listing_items = <<>>
    /\ idx = 0
    /\ page_listings = <<>>
    /\ listings = <<>>
    /\ scraped_count = 0
    /\ error_count = 0
    /\ hashSeed = None
    /\ k = 0
    /\ saved_count = 0
    /\ batch = <<>>
    /\ committed = <<>>
    /\ db = {}
    /\ result = None

InitPure ==
    /\ JobIdle
    /\ call \in CleanPriceCalls \cup ScoreCalls
    /\ ret = <<>>

NextPure == CallCleanPrice \/ CallScore

SpecPure == InitPure /\ [][NextPure]_vars

-----------------------------------------------------------------------------
(* The claims *)

\* the row loop of parse_listings_page has visited every row
RowLoopEnded == pc = "rows" /\ idx > Len(listing_items)

\* the positions of the rows of `items` that give a record passing the gate
KeptPositions(items) == {i \in 1..Len(items) : Kept(items[i])}

\* C1 as stated: for every page, the sequence parse_listings_page returns
\* has at most 20 records.
C1_CappedAt20 ==
    RowLoopEnded => Len(PageResult(page_listings)) <= 20

\* C1 as amended: parse_listings_page returns one record for each row that
\* is extracted and passes the gate, and no more, so at most as many records
\* as the page has candidate rows; no cap of 20 is applied.
C1_OneRecordPerKeptRow ==
    RowLoopEnded =>
        /\ Len(PageResult(page_listings))
               = Cardinality(KeptPositions(listing_items))
        /\ Len(PageResult(page_listings)) <= Len(listing_items)

\* a page of more than 20 rows that all pass has been processed
C1_Witness ==
    /\ RowLoopEnded
    /\ Len(listing_items) > 20
    /\ Len(PageResult(page_listings)) = Len(listing_items)

\* the three conditions of the hard gate, on a record
HasFsboKeyword(listing) == any_in(fsbo_keywords, lower(listing.title))
HasAgentKeyword(listing) == any_in(agent_keywords, lower(listing.title))
PriceInBand(listing) == 100000 <= listing.price /\ listing.price <= 10000000

PassesGate(listing) ==
    HasFsboKeyword(listing) /\ ~HasAgentKeyword(listing) /\ PriceInBand(listing)

\* C2: every record parse_listings_page has collected, and every record of
\* the list that goes to save_to_firestore, has an FSBO keyword in its
\* lower-cased title, no agent keyword, and a price from 100000 to 10000000.
C2_HardGate ==
    /\ \A i \in 1..Len(page_listings) : PassesGate(page_listings[i])
    /\ \A i \in 1..Len(listings) : PassesGate(listings[i])

\* a page with a row of an agent, a row priced under the band and a row that
\* passes has been processed
C2_Witness ==
    /\ RowLoopEnded
    /\ listing_items = <<RowAgent, RowCheap, RowOwnerB>>
    /\ Len(page_listings) = 1

\* the job returned a success result although a write of save_to_firestore
\* raised: the loop stopped early, or the last batch stayed uncommitted
WriteFailed ==
    /\ pc = "done"
    /\ result # None
    /\ result[1].success
    /\ (k <= Len(listings) \/ batch # <<>>)

\* C3: when batch.set or batch.commit raises, run_scraping_job still returns
\* a result and the total_saved it reports is zero.
C3_ZeroSavedOnFailure ==
    /\ pc = "done" => result # None
    /\ WriteFailed => result[1].total_saved = 0

\* C4: run_scraping_job returns success:false when the driver cannot be
\* created, every page fetch fails or zero candidates are found, and
\* success:true in every other case.
C4_SuccessFlag ==
    pc = "done" =>
        (result[1].success = FALSE
            <=> (driver = "None" \/ scraped_count = 0))

\* the records of the rows of `items` that pass, in the order of the rows
KeptRecords(items, page_num) ==
    LET kept == KeptPositions(items)
        nth(j) == CHOOSE i \in kept : Cardinality({m \in kept : m < i}) = j - 1
    IN  [j \in 1..Cardinality(kept) |->
            Stamp(parse_single_listing(items[nth(j)])[1], page_num)]

\* C5, rows: the row loop ends only past the last row, and the records it
\* has then collected are those of all the rows that pass, in order,
\* whatever rows raised before them.
C5_RowIsolation ==
    /\ pc = "rows" => idx <= Len(listing_items) + 1
    /\ RowLoopEnded =>
           page_listings = KeptRecords(listing_items, page)

\* C5, pages: once the page loop is over, every page up to max_pages was
\* attempted, whatever fetches failed.
C5_PageIsolation ==
    (pc \in {"quit", "save", "commit", "done"} /\ driver = "ok")
        => page = max_pages + 1

\* C5, the result: a step that handles a page error keeps the listings
\* gathered so far and goes on to the next page.
C5_ErrorKeepsListings ==
    (error_count' = error_count + 1) =>
        /\ listings' = listings
        /\ page' = page + 1
        /\ pc' = (IF page + 1 <= max_pages THEN "page" ELSE "quit")

\* C5: an error in one row never stops the rows after it, an error in one
\* page never stops the pages after it, and the listings gathered before
\* the error are kept.
C5_ErrorIsolation ==
    /\ [](C5_RowIsolation /\ C5_PageIsolation)
    /\ [][C5_ErrorKeepsListings]_vars

\* page 1 failed to load; on page 2 a row raised and the row after it was
\* still processed and collected
C5_Witness ==
    /\ RowLoopEnded
    /\ page = 2
    /\ error_count = 1
    /\ listing_items = <<RowBodyFault, RowOwnerA>>
    /\ Len(page_listings) = 1

\* a direct call of `fn` has returned
Returned(fn) == call.fn = fn /\ ret # <<>>

\* C6: calculate_opportunity_score returns an integer from 1 to 10 for any
\* record, also with an empty title or location or a price of 0, and also
\* when every bonus applies at once.
C6_ScoreInRange ==
    Returned("calculate_opportunity_score") =>
        ret[1] \in Int /\ 1 <= ret[1] /\ ret[1] <= 10

\* every bonus applied (5 + 2 + 1 + 2 + 1 + 1 = 12) and 10 was returned
C6_Witness ==
    /\ Returned("calculate_opportunity_score")
    /\ raw_score(call.title, call.price, call.location) = 12
    /\ ret[1] = 10

IsDecimalDigit(c) == c \in DecimalDigits

\* the integer the decimal digits of s spell when put side by side
DigitConcat(s) == DecimalValue(SelectSeq(s, IsDecimalDigit))

HasDecimalDigit(s) == \E i \in 1..Len(s) : s[i] \in DecimalDigits

IsNotGrouping(c) == c \notin {Lira, ".", " "}

\* r is made of decimal digits and of "TL" only
RECURSIVE DigitsAndTL(_)
DigitsAndTL(r) ==
    IF r = <<>> THEN TRUE
    ELSE IF Head(r) \in DecimalDigits THEN DigitsAndTL(Tail(r))
    ELSE IF Len(r) >= 2 /\ r[1] = "T" /\ r[2] = "L"
         THEN DigitsAndTL(Tail(Tail(r)))
    ELSE FALSE

\* s holds a decimal digit and, once the lira sign, "." and " " are dropped,
\* nothing but decimal digits and "TL"
PriceShaped(s) ==
    HasDecimalDigit(s) /\ DigitsAndTL(SelectSeq(s, IsNotGrouping))

\* C7 as stated: clean_price returns absent (0) when the input has no digit
\* and otherwise the integer its digits spell; it never raises.
C7_DigitConcatOfAnyInput ==
    Returned("clean_price") =>
        ret[1] = (IF HasDecimalDigit(call.price_text)
                  THEN DigitConcat(call.price_text) ELSE 0)

\* C7 as amended: clean_price never raises; it returns the integer the
\* input's decimal digits spell when the input holds a decimal digit and
\* otherwise only the lira sign, ".", " " and "TL"; for every other input
\* (no digit, or any other character beside the digits) it returns 0, the
\* value it uses for absent.
C7_DigitConcatOfPriceShaped ==
    Returned("clean_price") =>
        /\ ret[1] \in Nat
        /\ ret[1] = (IF PriceShaped(call.price_text)
                     THEN DigitConcat(call.price_text) ELSE 0)

\* clean_price("10TL") returned 10
C7_Witness ==
    /\ Returned("clean_price")
    /\ call.price_text = <<"1", "0", "T", "L">>
    /\ ret[1] = 10

\* C8: two listings with the same url get the same document id, in one run
\* and in any later run in a new process, so a repeated scrape of a listing
\* writes to the same document: the collection never holds two documents
\* for one url.
C8_StableDocId ==
    \A d1 \in db : \A d2 \in db : d1.url = d2.url => d1.doc_id = d2.doc_id

\* C9: no record parse_listings_page has collected or returned has an empty
\* title.
C9_NoEmptyTitle ==
    /\ \A i \in 1..Len(page_listings) : page_listings[i].title # <<>>
    /\ \A i \in 1..Len(listings) : listings[i].title # <<>>

\* a page with a row without a title anchor, a row with a blank title and a
\* row that passes has been processed
C9_Witness ==
    /\ RowLoopEnded
    /\ listing_items = <<RowNoAnchor, RowBlankTitle, RowOwnerB>>
    /\ Len(page_listings) = 1

\* the writes of all committed batches
RECURSIVE Flatten(_)
Flatten(batches) ==
    IF batches = <<>> THEN <<>>
    ELSE Flatten(SubSeq(batches, 1, Len(batches) - 1))
             \o batches[Len(batches)]

\* save_to_firestore returned and no write raised
SavedAll == pc = "done" /\ k > Len(listings) /\ batch = <<>>

\* C10: in save_to_firestore the count equals at every point the writes in
\* committed batches plus those in the open batch; no committed batch is
\* empty or holds more than 100 writes; and when no write fails, the count
\* returned is the length of the list and every listing is in exactly one
\* committed batch.
C10_Batches ==
    LET sent == Flatten(committed)
    IN  /\ pc \in {"save", "commit", "done"}
            => saved_count = Len(sent) + Len(batch)
        /\ \A i \in 1..Len(committed) :
               1 <= Len(committed[i]) /\ Len(committed[i]) <= 100
        /\ SavedAll =>
               /\ result[1].total_saved = Len(listings)
               /\ Len(sent) = Len(listings)
               /\ \A j \in 1..Len(listings) : sent[j].src = j

\* a list of 201 listings was saved in two full batches and a last one
C10_Witness ==
    /\ SavedAll
    /\ Len(listings) = 201
    /\ Len(committed) = 3
    /\ Len(committed[3]) = 1

====
